---------------------------- MODULE Spec2Model ----------------------------
(***************************************************************************)
(* Model of the email assistant's memory subsystem (memory_manager.py), of  *)
(* the classification pipeline and its response parser (email_triage.py)   *)
(* and of the batch run of the entry point (get_messages.py, test.py).     *)
(*                                                                         *)
(* The three SQLite tables are the state.  Every table is a sequence of    *)
(* rows in rowid order, which is the order SQLite breaks ORDER BY ties in  *)
(* and the order fetchone() meets rows in.  A Python datetime is a number  *)
(* of clock ticks; the text SQLite stores for it is the pair <<day, tick   *)
(* within the day>>, compared field by field as the text is compared       *)
(* character by character.                                                 *)
(***************************************************************************)
EXTENDS Integers, Sequences, FiniteSets, TLC

VARIABLES
    email_history,          \* table email_history, rows in rowid order
    user_context,           \* table user_context, rows in rowid order
    conversation_patterns,  \* table conversation_patterns, rows in rowid order
    now,                    \* the wall clock read by datetime.now() / date.today()
    result_text,            \* the classifier response handed to extract_classification
    last,                   \* the last call made: its name, arguments and return value
    set_log,                \* history: per context key, the latest set and whether it changed the category
    observe_log,            \* history: per (domain, classification), calls made and latest keywords
    connections,            \* connections opened by sqlite3.connect and not closed by conn.close()
    run                     \* the batch run of the entry point: its phase, message ids and fetched emails

vars == <<email_history, user_context, conversation_patterns, now,
          result_text, last, set_log, observe_log, connections, run>>

-----------------------------------------------------------------------------
(* Bounds of the model *)

MaxNow == 4
TicksPerDay == 2
MaxObserve == 3
MaxTextLen == 4
MaxCoreLen == 5
MaxFragmentLen == 2
MaxLeaks == 2
MaxBatch == 2

-----------------------------------------------------------------------------
(* Generic helpers *)

Min(a, b) == IF a < b THEN a ELSE b

\* All sequences over S of length at most n.
SeqsUpTo(S, n) == UNION {[1..k -> S] : k \in 0..n}

\* Python's None, which no stored string equals.
None == "<None>"

\* The k-th smallest element of a finite set of numbers.
Nth(S, k) == CHOOSE i \in S : Cardinality({j \in S : j <= i}) = k

-----------------------------------------------------------------------------
(* datetime <-> stored text *)

\* sqlite3's default adapter: datetime -> "YYYY-MM-DD HH:MM:SS" text.
AdaptDatetime(ts) == <<ts \div TicksPerDay, ts % TicksPerDay>>

\* datetime.datetime.fromisoformat on the stored text.
FromIsoFormat(txt) == txt[1] * TicksPerDay + txt[2]

\* SQL DATE(timestamp): the date part of the stored text.
SqlDate(txt) == txt[1]

\* Text comparison of two stored timestamps.
TextLess(a, b) == a[1] < b[1] \/ (a[1] = b[1] /\ a[2] < b[2])

\* datetime.date.today()
Today == now \div TicksPerDay

-----------------------------------------------------------------------------
(* EmailRecord <-> row of email_history *)

\* The parameter tuple of the INSERT: the dataclass fields as sqlite3 binds
\* them (datetime -> text, bool -> integer).
EmailRow(r) ==
    [email_id       |-> r.email_id,
     author         |-> r.author,
     subject        |-> r.subject,
     classification |-> r.classification,
     reasoning      |-> r.reasoning,
     thread_summary |-> r.thread_summary,
     timestamp      |-> AdaptDatetime(r.timestamp),
     response_sent  |-> IF r.response_sent THEN 1 ELSE 0,
     raw_content    |-> r.raw_content]

\* EmailRecord(...) built from a fetched row.
EmailRecord(row) ==
    [email_id       |-> row.email_id,
     author         |-> row.author,
     subject        |-> row.subject,
     classification |-> row.classification,
     reasoning      |-> row.reasoning,
     thread_summary |-> row.thread_summary,
     timestamp      |-> FromIsoFormat(row.timestamp),
     response_sent  |-> row.response_sent # 0,
     raw_content    |-> row.raw_content]

\* Rows of a table that satisfy a WHERE clause, in rowid order.
RowsWithId(rows, id) == SelectSeq(rows, LAMBDA x : x.email_id = id)

RowsWithoutId(rows, id) == SelectSeq(rows, LAMBDA x : x.email_id # id)

\* Variant: INSERT OR IGNORE, which keeps the row already stored under the key.
InsertOrIgnoreEmail(rows, row) ==
    IF RowsWithId(rows, row.email_id) # <<>> THEN rows ELSE Append(rows, row)

\* INSERT OR REPLACE INTO email_history: the row holding the same primary key
\* is deleted and the new row gets the next rowid.
InsertOrReplaceEmail(rows, row) == Append(RowsWithoutId(rows, row.email_id), row)

\* Variant: SET response_sent = NOT response_sent.
UpdateResponseSentToggled(rows, id) ==
    [i \in 1..Len(rows) |->
        IF rows[i].email_id = id
        THEN [rows[i] EXCEPT !.response_sent = 1 - @]
        ELSE rows[i]]

\* Variant: the UPDATE without its WHERE clause.
UpdateResponseSentEverywhere(rows, id) ==
    [i \in 1..Len(rows) |-> [rows[i] EXCEPT !.response_sent = 1]]

\* UPDATE email_history SET response_sent = TRUE WHERE email_id = ?
UpdateResponseSent(rows, id) ==
    [i \in 1..Len(rows) |->
        IF rows[i].email_id = id THEN [rows[i] EXCEPT !.response_sent = 1]
                                 ELSE rows[i]]

\* cursor.rowcount of that UPDATE: the rows its WHERE clause matched.
UpdateRowCount(rows, id) == Len(RowsWithId(rows, id))

-----------------------------------------------------------------------------
(* Record Store operations *)

Call(op, arg, ret) == [op |-> op, arg |-> arg, ret |-> ret]

\* EmailMemoryManager.store_email_decision
\* (existed / differed note what the table held under the id before the call)
StoreEmailDecision(r) ==
    /\ email_history' = InsertOrReplaceEmail(email_history, EmailRow(r))
    /\ last' = [op       |-> "store_email_decision",
                arg      |-> r,
                ret      |-> TRUE,
                existed  |-> RowsWithId(email_history, r.email_id) # <<>>,
                differed |-> RowsWithId(email_history, r.email_id) # <<EmailRow(r)>>]
    /\ UNCHANGED <<user_context, conversation_patterns, now, result_text,
                   set_log, observe_log, connections, run>>

\* EmailMemoryManager.mark_response_sent
MarkResponseSent(id) ==
    /\ email_history' = UpdateResponseSent(email_history, id)
    /\ last' = Call("mark_response_sent", id, UpdateRowCount(email_history, id) > 0)
    /\ UNCHANGED <<user_context, conversation_patterns, now, result_text,
                   set_log, observe_log, connections, run>>

-----------------------------------------------------------------------------
(* Query Layer over email_history *)

\* Variant: ORDER BY timestamp ASC.
OrderByTimestampAsc(rows) ==
    LET n == Len(rows)
        before(j, i) == \/ TextLess(rows[j].timestamp, rows[i].timestamp)
                        \/ (rows[j].timestamp = rows[i].timestamp /\ j < i)
        rank(i) == 1 + Cardinality({j \in 1..n : before(j, i)})
    IN  [p \in 1..n |-> rows[CHOOSE i \in 1..n : rank(i) = p]]

\* ORDER BY timestamp DESC: rows by descending stored text; rows whose text
\* is equal stay in rowid order.
OrderByTimestampDesc(rows) ==
    LET n == Len(rows)
        before(j, i) == \/ TextLess(rows[i].timestamp, rows[j].timestamp)
                        \/ (rows[j].timestamp = rows[i].timestamp /\ j < i)
        rank(i) == 1 + Cardinality({j \in 1..n : before(j, i)})
    IN  [p \in 1..n |-> rows[CHOOSE i \in 1..n : rank(i) = p]]

\* Variant: the query without its LIMIT clause.
SqlNoLimit(rows, limit) == rows

\* LIMIT ?: a negative limit is no limit in SQLite.
SqlLimit(rows, limit) ==
    IF limit < 0 THEN rows ELSE SubSeq(rows, 1, Min(limit, Len(rows)))

\* WHERE author = ?
RowsOfAuthor(rows, author) == SelectSeq(rows, LAMBDA x : x.author = author)

\* EmailMemoryManager.get_author_history: the value it returns.
AuthorHistory(rows, author, limit) ==
    LET fetched == SqlLimit(OrderByTimestampDesc(RowsOfAuthor(rows, author)), limit)
    IN  [i \in 1..Len(fetched) |-> EmailRecord(fetched[i])]

\* LIKE folds the case of the ASCII letters of both sides.  (A subject is
\* kept as the sequence of its characters.)
LikeFold(ch) == CASE ch = "A" -> "a" [] ch = "B" -> "b" [] OTHER -> ch

\* Variant: the pattern's text between its two % taken literally and
\* compared case-sensitively, as instr(subject, ?) > 0 would.
SqlInstr(pattern, text) ==
    LET fragment == SubSeq(pattern, 2, Len(pattern) - 1)
    IN  \E i \in 0..(Len(text) - Len(fragment)) :
            SubSeq(text, i + 1, i + Len(fragment)) = fragment

\* text LIKE pattern, without ESCAPE: % matches any run of characters, _
\* any one character, an ASCII letter itself in either case, any other
\* character itself.
RECURSIVE SqlLike(_, _)
SqlLike(pattern, text) ==
    IF pattern = <<>> THEN text = <<>>
    ELSE IF Head(pattern) = "%"
         THEN \E k \in 0..Len(text) :
                  SqlLike(Tail(pattern), SubSeq(text, k + 1, Len(text)))
    ELSE IF text = <<>> THEN FALSE
    ELSE IF Head(pattern) = "_" THEN SqlLike(Tail(pattern), Tail(text))
    ELSE /\ LikeFold(Head(pattern)) = LikeFold(Head(text))
         /\ SqlLike(Tail(pattern), Tail(text))

\* WHERE subject LIKE ?, bound to f"%{subject}%"
RowsWithSubjectLike(rows, subject) ==
    SelectSeq(rows, LAMBDA x : SqlLike(<<"%">> \o subject \o <<"%">>, x.subject))

\* EmailMemoryManager.get_similar_subjects: the value it returns.
SimilarSubjects(rows, subject, limit) ==
    LET fetched == SqlLimit(OrderByTimestampDesc(
                                RowsWithSubjectLike(rows, subject)), limit)
    IN  [i \in 1..Len(fetched) |-> EmailRecord(fetched[i])]

\* record.timestamp.strftime("%Y-%m-%d")
StrfDate(ts) == ts \div TicksPerDay

NoHistory == <<"No previous interactions with this sender.">>

\* Variant: the line shows the subject where the summary belongs.
HistoryLineWithSubject(record) ==
    <<"- ", StrfDate(record.timestamp), ": ", record.classification, " - ",
      record.subject>>

\* One formatted line, f"- {date_str}: {classification} - {thread_summary}",
\* kept as its pieces.
HistoryLine(record) ==
    <<"- ", StrfDate(record.timestamp), ": ", record.classification, " - ",
      record.thread_summary>>

\* EmailMemoryManager.format_author_history_for_prompt: the lines of the
\* string it returns.
FormattedHistory(rows, author, limit) ==
    LET history == AuthorHistory(rows, author, limit)
    IN  IF history = <<>> THEN <<NoHistory>>
        ELSE [i \in 1..Len(history) |-> HistoryLine(history[i])]

\* WHERE DATE(timestamp) = ?
RowsOfDate(rows, date) == SelectSeq(rows, LAMBDA x : SqlDate(x.timestamp) = date)

\* COUNT(*) of one GROUP BY classification group.
GroupCount(rows, classification) ==
    Len(SelectSeq(rows, LAMBDA x : x.classification = classification))

SummaryKeys == {"IGNORE", "NOTIFY", "RESPOND"}

\* EmailMemoryManager.get_daily_summary: the dict it returns.  The dict starts
\* with the three upper-case keys and 'total'; every group of the result set
\* then assigns its own key.
DailySummary(rows, date) ==
    LET dated  == RowsOfDate(rows, date)
        groups == {dated[i].classification : i \in 1..Len(dated)}
    IN  [k \in SummaryKeys \cup {"total"} \cup groups |->
            IF k = "total" THEN Len(dated)
            ELSE IF k \in groups THEN GroupCount(dated, k)
            ELSE 0]

\* datetime.timedelta(days=7) of get_weekly_stats
WeekDays == 7

\* WHERE DATE(timestamp) >= ?
RowsSince(rows, date) == SelectSeq(rows, LAMBDA x : ~(SqlDate(x.timestamp) < date))

\* EmailMemoryManager.get_weekly_stats: the dict it returns.  A day gets its
\* entry, with the three upper-case keys, when the result set has a group
\* of that day; every group then assigns its own key.
WeeklyStats(rows, today) ==
    LET week_ago == today - WeekDays
        since    == RowsSince(rows, week_ago)
        days     == {SqlDate(since[i].timestamp) : i \in 1..Len(since)}
    IN  [day \in days |->
            LET dated  == RowsOfDate(since, day)
                groups == {dated[i].classification : i \in 1..Len(dated)}
            IN  [k \in SummaryKeys \cup groups |->
                    IF k \in groups THEN GroupCount(dated, k) ELSE 0]]

\* Variant: the DELETE without its WHERE clause.
RowsKeptNone(rows, cutoff) == <<>>

\* Variant: DELETE ... WHERE DATE(timestamp) <= ?
RowsKeptAfter(rows, cutoff) == SelectSeq(rows, LAMBDA x : SqlDate(x.timestamp) > cutoff)

\* DELETE FROM email_history WHERE DATE(timestamp) < ?
RowsKept(rows, cutoff) == SelectSeq(rows, LAMBDA x : ~(SqlDate(x.timestamp) < cutoff))

\* EmailMemoryManager.get_author_history
\* (after notes the record stored by the call just before this one, if any)
GetAuthorHistory(author, limit) ==
    /\ last' = [op    |-> "get_author_history",
                arg   |-> <<author, limit>>,
                ret   |-> AuthorHistory(email_history, author, limit),
                after |-> IF last.op = "store_email_decision"
                          THEN <<last.arg>> ELSE <<>>]
    /\ UNCHANGED <<email_history, user_context, conversation_patterns, now,
                   result_text, set_log, observe_log,
                   connections, run>>

\* EmailMemoryManager.get_similar_subjects
GetSimilarSubjects(subject, limit) ==
    /\ last' = Call("get_similar_subjects", <<subject, limit>>,
                    SimilarSubjects(email_history, subject, limit))
    /\ UNCHANGED <<email_history, user_context, conversation_patterns, now,
                   result_text, set_log, observe_log, connections, run>>

\* EmailMemoryManager.format_author_history_for_prompt
FormatAuthorHistoryForPrompt(author, limit) ==
    /\ last' = Call("format_author_history_for_prompt", <<author, limit>>,
                    FormattedHistory(email_history, author, limit))
    /\ UNCHANGED <<email_history, user_context, conversation_patterns, now,
                   result_text, set_log, observe_log,
                   connections, run>>

\* EmailMemoryManager.get_daily_summary
GetDailySummary(date) ==
    /\ last' = Call("get_daily_summary", date, DailySummary(email_history, date))
    /\ UNCHANGED <<email_history, user_context, conversation_patterns, now,
                   result_text, set_log, observe_log,
                   connections, run>>

\* EmailMemoryManager.get_weekly_stats
GetWeeklyStats ==
    /\ last' = [op    |-> "get_weekly_stats",
                arg   |-> None,
                today |-> Today,
                ret   |-> WeeklyStats(email_history, Today)]
    /\ UNCHANGED <<email_history, user_context, conversation_patterns, now,
                   result_text, set_log, observe_log, connections, run>>

\* EmailMemoryManager.cleanup_old_records
CleanupOldRecords(days_to_keep) ==
    LET cutoff_date == Today - days_to_keep
    IN  /\ email_history' = RowsKept(email_history, cutoff_date)
        /\ last' = [op    |-> "cleanup_old_records",
                    arg   |-> days_to_keep,
                    today |-> Today,
                    ret   |-> Len(email_history)
                                - Len(RowsKept(email_history, cutoff_date))]
        /\ UNCHANGED <<user_context, conversation_patterns, now, result_text,
                       set_log, observe_log,
                       connections, run>>

\* EmailMemoryManager.export_to_json: the document written, one collection
\* per table; the tables are only read.
ExportToJson ==
    /\ last' = Call("export_to_json", None,
                    [email_history         |-> email_history,
                     user_context          |-> user_context,
                     conversation_patterns |-> conversation_patterns])
    /\ UNCHANGED <<email_history, user_context, conversation_patterns, now,
                   result_text, set_log, observe_log, connections, run>>

\* The wall clock advances.
Tick ==
    /\ now < MaxNow
    /\ now' = now + 1
    /\ UNCHANGED <<email_history, user_context, conversation_patterns,
                   result_text, last, set_log, observe_log,
                   connections, run>>

-----------------------------------------------------------------------------
(* Context Store: table user_context *)

RowsWithoutKey(rows, key) == SelectSeq(rows, LAMBDA x : x.key # key)

RowsWithKey(rows, key) == SelectSeq(rows, LAMBDA x : x.key = key)

\* Variant: a plain INSERT, on a table without its key constraint.
InsertContext(rows, row) == Append(rows, row)

\* INSERT OR REPLACE INTO user_context (key, value, category, updated_at)
InsertOrReplaceContext(rows, row) == Append(RowsWithoutKey(rows, row.key), row)

\* get_user_context: result[0] if result else None, result = fetchone()
ContextValue(rows, key) ==
    LET result == RowsWithKey(rows, key)
    IN  IF result # <<>> THEN result[1].value ELSE None

\* get_user_context_by_category: {key: value for key, value in results};
\* a later row of the result set overwrites an earlier one under the same key.
ContextOfCategory(rows, category) ==
    LET results == SelectSeq(rows, LAMBDA x : x.category = category)
        n == Len(results)
        latest(k) == CHOOSE i \in 1..n :
                        /\ results[i].key = k
                        /\ \A j \in 1..n : results[j].key = k => j <= i
    IN  [k \in {results[i].key : i \in 1..n} |-> results[latest(k)].value]

\* EmailMemoryManager.update_user_context
UpdateUserContext(key, value, category) ==
    /\ user_context' = InsertOrReplaceContext(user_context,
                            [key |-> key, value |-> value, category |-> category,
                             updated_at |-> AdaptDatetime(now)])
    /\ set_log' = [set_log EXCEPT ![key] =
                      [value |-> value, category |-> category,
                       moved |-> @.category \notin {None, category}]]
    /\ last' = Call("update_user_context", <<key, value, category>>, TRUE)
    /\ UNCHANGED <<email_history, conversation_patterns, now, result_text,
                   observe_log, connections, run>>

\* EmailMemoryManager.get_user_context
GetUserContext(key) ==
    /\ last' = Call("get_user_context", key, ContextValue(user_context, key))
    /\ UNCHANGED <<email_history, user_context, conversation_patterns, now,
                   result_text, set_log, observe_log,
                   connections, run>>

\* EmailMemoryManager.get_user_context_by_category
GetUserContextByCategory(category) ==
    /\ last' = Call("get_user_context_by_category", category,
                    ContextOfCategory(user_context, category))
    /\ UNCHANGED <<email_history, user_context, conversation_patterns, now,
                   result_text, set_log, observe_log,
                   connections, run>>

-----------------------------------------------------------------------------
(* Pattern Store: table conversation_patterns *)

\* json.dumps of a list of strings: the tokens of the JSON text.
JsonDumps(keywords) ==
    LET n == Len(keywords)
        token(i) == IF i = 1 THEN "["
                    ELSE IF i = 2 * n + 1 \/ n = 0 THEN "]"
                    ELSE IF i % 2 = 0 THEN [json_string |-> keywords[i \div 2]]
                    ELSE ","
    IN  [i \in 1..(IF n = 0 THEN 2 ELSE 2 * n + 1) |-> token(i)]

\* json.loads of such a text: the strings between the brackets and commas.
JsonLoads(text) ==
    [i \in 1..((Len(text) - 1) \div 2) |-> text[2 * i].json_string]

\* SELECT pattern_id, frequency ... WHERE author_domain = ? AND
\* typical_classification = ?
RowsOfPattern(rows, author_domain, classification) ==
    SelectSeq(rows, LAMBDA x : /\ x.author_domain = author_domain
                               /\ x.typical_classification = classification)

\* UPDATE conversation_patterns SET frequency = frequency + 1, keywords = ?,
\* last_seen = ? WHERE pattern_id = ?
UpdatePattern(rows, pattern_id, keywords, seen) ==
    [i \in 1..Len(rows) |->
        IF rows[i].pattern_id = pattern_id
        THEN [rows[i] EXCEPT !.frequency = @ + 1,
                             !.keywords = JsonDumps(keywords),
                             !.last_seen = AdaptDatetime(seen)]
        ELSE rows[i]]

\* INSERT INTO conversation_patterns (...) VALUES (?, ?, ?, 1, ?); the table
\* is AUTOINCREMENT and nothing deletes from it.
InsertPattern(rows, author_domain, classification, keywords, seen) ==
    Append(rows, [pattern_id             |-> Len(rows) + 1,
                  author_domain          |-> author_domain,
                  typical_classification |-> classification,
                  keywords               |-> JsonDumps(keywords),
                  frequency              |-> 1,
                  last_seen              |-> AdaptDatetime(seen)])

\* Variant: the lookup is skipped and a row is inserted on every call.
PatternsAlwaysInserted(rows, author_domain, classification, keywords, seen) ==
    InsertPattern(rows, author_domain, classification, keywords, seen)

\* The table after update_conversation_pattern's statements.
PatternsAfterUpdate(rows, author_domain, classification, keywords, seen) ==
    LET result == RowsOfPattern(rows, author_domain, classification)
    IN  IF result # <<>>
        THEN UpdatePattern(rows, result[1].pattern_id, keywords, seen)
        ELSE InsertPattern(rows, author_domain, classification, keywords, seen)

\* ORDER BY frequency DESC, rows of equal frequency in rowid order.
OrderByFrequencyDesc(rows) ==
    LET n == Len(rows)
        before(j, i) == \/ rows[j].frequency > rows[i].frequency
                        \/ (rows[j].frequency = rows[i].frequency /\ j < i)
        rank(i) == 1 + Cardinality({j \in 1..n : before(j, i)})
    IN  [p \in 1..n |-> rows[CHOOSE i \in 1..n : rank(i) = p]]

\* ConversationPattern(...) built from a fetched row.
ConversationPattern(row) ==
    [author_domain          |-> row.author_domain,
     typical_classification |-> row.typical_classification,
     keywords               |-> JsonLoads(row.keywords),
     frequency              |-> row.frequency,
     last_seen              |-> FromIsoFormat(row.last_seen)]

\* EmailMemoryManager.get_author_patterns: the value it returns.
AuthorPatterns(rows, author_domain) ==
    LET fetched == OrderByFrequencyDesc(
                       SelectSeq(rows, LAMBDA x : x.author_domain = author_domain))
    IN  [i \in 1..Len(fetched) |-> ConversationPattern(fetched[i])]

\* Calls of update_conversation_pattern made so far, over the pairs in S.
RECURSIVE ObserveCalls(_)
ObserveCalls(S) ==
    IF S = {} THEN 0
    ELSE LET a == CHOOSE x \in S : TRUE
         IN  observe_log[a].calls + ObserveCalls(S \ {a})

\* EmailMemoryManager.update_conversation_pattern
UpdateConversationPattern(author_domain, classification, keywords) ==
    /\ ObserveCalls(DOMAIN observe_log) < MaxObserve
    /\ conversation_patterns' = PatternsAfterUpdate(conversation_patterns,
                                    author_domain, classification, keywords, now)
    /\ observe_log' = [observe_log EXCEPT ![<<author_domain, classification>>] =
                          [calls |-> @.calls + 1, keywords |-> keywords]]
    /\ last' = Call("update_conversation_pattern",
                    <<author_domain, classification, keywords>>, TRUE)
    /\ UNCHANGED <<email_history, user_context, now, result_text, set_log,
                   connections, run>>

\* EmailMemoryManager.get_author_patterns
GetAuthorPatterns(author_domain) ==
    /\ last' = Call("get_author_patterns", author_domain,
                    AuthorPatterns(conversation_patterns, author_domain))
    /\ UNCHANGED <<email_history, user_context, conversation_patterns, now,
                   result_text, set_log, observe_log,
                   connections, run>>

-----------------------------------------------------------------------------
(* Classifier response text and its parsing (email_triage.py)              *)
(*                                                                         *)
(* A text is a sequence of pieces; the string it stands for is their       *)
(* concatenation.  The pieces are chosen so that a marker or a verdict     *)
(* word occurs in the string exactly where the operators below find it.    *)

Whitespace == {" ", "\n"}

Tokens == {" ", "\n", "CLASSIFICATION:", "classification:", "REASONING:",
           "reasoning:", "IGNORE", "notify", "RESPOND", "IG", "NORE", "x"}

CoreTokens == {"\n", "CLASSIFICATION:", "REASONING:", "IGNORE", "notify", "x"}

\* str.upper() of one piece.
UpperToken(t) ==
    CASE t = "classification:" -> "CLASSIFICATION:"
      [] t = "reasoning:"      -> "REASONING:"
      [] t = "notify"          -> "NOTIFY"
      [] OTHER                 -> t

\* str.upper()
Upper(s) == [i \in 1..Len(s) |-> UpperToken(s[i])]

\* str.strip(): leading and trailing whitespace removed.
Strip(s) ==
    LET solid == {i \in 1..Len(s) : s[i] \notin Whitespace}
    IN  IF solid = {} THEN <<>>
        ELSE SubSeq(s, Nth(solid, 1), Nth(solid, Cardinality(solid)))

\* str.split('\n'): the lines, one more than there are newlines.
SplitLines(s) ==
    LET nls == {i \in 1..Len(s) : s[i] = "\n"}
        n == Cardinality(nls)
        cut(k) == IF k = 0 THEN 0 ELSE IF k = n + 1 THEN Len(s) + 1 ELSE Nth(nls, k)
    IN  [k \in 1..(n + 1) |-> SubSeq(s, cut(k - 1) + 1, cut(k) - 1)]

\* "\n".join(lines)
RECURSIVE JoinLines(_)
JoinLines(lines) ==
    IF Len(lines) = 0 THEN <<>>
    ELSE IF Len(lines) = 1 THEN lines[1]
    ELSE lines[1] \o <<"\n">> \o JoinLines(Tail(lines))

\* str.startswith(marker), marker being one piece.
StartsWith(s, marker) == Len(s) >= 1 /\ s[1] = marker

\* str.replace(marker, ""): every occurrence of the marker removed.
ReplaceAll(s, marker) == SelectSeq(s, LAMBDA t : t # marker)

\* The ways the pieces spell a verdict word.
Spellings(word) ==
    IF word = "IGNORE" THEN {<<"IGNORE">>, <<"IG", "NORE">>} ELSE {<<word>>}

\* word in s
Contains(s, word) ==
    \E sp \in Spellings(word) : \E i \in 1..Len(s) :
        i + Len(sp) - 1 <= Len(s) /\ SubSeq(s, i, i + Len(sp) - 1) = sp

\* The lines extract_classification scans.
ResponseLines(text) == SplitLines(Strip(text))

\* Variant: the loop without its break, so the last CLASSIFICATION: line that
\* names a verdict decides.
ParsedClassificationNoBreak(text) ==
    LET lines == ResponseLines(text)
        verdict(i) ==
            LET classification_text ==
                    Strip(ReplaceAll(Upper(lines[i]), "CLASSIFICATION:"))
            IN  IF Contains(classification_text, "IGNORE") THEN "ignore"
                ELSE IF Contains(classification_text, "NOTIFY") THEN "notify"
                ELSE IF Contains(classification_text, "RESPOND") THEN "respond"
                ELSE None
        naming == {i \in 1..Len(lines) :
                      /\ StartsWith(Upper(lines[i]), "CLASSIFICATION:")
                      /\ verdict(i) # None}
    IN  IF naming = {} THEN "respond"
        ELSE verdict(Nth(naming, Cardinality(naming)))

\* The first loop of extract_classification.
ParsedClassification(text) ==
    LET lines == ResponseLines(text)
        marked == {i \in 1..Len(lines) : StartsWith(Upper(lines[i]), "CLASSIFICATION:")}
    IN  IF marked = {} THEN "respond"
        ELSE LET line == lines[Nth(marked, 1)]
                 classification_text == Strip(ReplaceAll(Upper(line), "CLASSIFICATION:"))
             IN  IF Contains(classification_text, "IGNORE") THEN "ignore"
                 ELSE IF Contains(classification_text, "NOTIFY") THEN "notify"
                 ELSE IF Contains(classification_text, "RESPOND") THEN "respond"
                 ELSE "respond"

\* Variant: one merged scan, in which a CLASSIFICATION: line is consumed by
\* the verdict pass and never reaches reasoning_lines.
ReasoningLinesMergedScan(text) ==
    LET lines == ResponseLines(text)
        marker(i) == StartsWith(Upper(lines[i]), "REASONING:")
        kept == {i \in 1..Len(lines) :
                    /\ ~marker(i)
                    /\ ~StartsWith(Upper(lines[i]), "CLASSIFICATION:")
                    /\ \E j \in 1..(i - 1) : marker(j)}
    IN  [k \in 1..Cardinality(kept) |-> lines[Nth(kept, k)]]

\* The second loop: the lines appended to reasoning_lines.
ReasoningLines(text) ==
    LET lines == ResponseLines(text)
        marker(i) == StartsWith(Upper(lines[i]), "REASONING:")
        kept == {i \in 1..Len(lines) :
                    ~marker(i) /\ \E j \in 1..(i - 1) : marker(j)}
    IN  [k \in 1..Cardinality(kept) |-> lines[Nth(kept, k)]]

\* The reasoning extract_classification returns.
ParsedReasoning(text) ==
    IF ReasoningLines(text) # <<>> THEN JoinLines(ReasoningLines(text)) ELSE text

\* extract_classification
ExtractClassification(text) == <<ParsedClassification(text), ParsedReasoning(text)>>

\* A call of extract_classification on the response at hand.
ExtractClassificationCall ==
    /\ last' = Call("extract_classification", result_text,
                    ExtractClassification(result_text))
    /\ UNCHANGED <<email_history, user_context, conversation_patterns, now,
                   result_text, set_log, observe_log,
                   connections, run>>

-----------------------------------------------------------------------------
(* Classification Pipeline *)

\* Variant: the notify branch returning what the ignore branch returns.
RouteResultNotifyWithoutEmail(email_data, classification, reasoning) ==
    CASE classification \in {"ignore", "notify"} ->
            [action |-> classification, reason |-> reasoning]
      [] OTHER ->
            [action |-> "respond", email |-> email_data, reason |-> reasoning,
             response |-> ""]

\* The dict triage_router returns for a Router result.
RouteResult(email_data, classification, reasoning) ==
    CASE classification = "ignore" ->
            [action |-> "ignore", reason |-> reasoning]
      [] classification = "notify" ->
            [action |-> "notify", email |-> email_data, reason |-> reasoning]
      [] classification = "respond" ->
            [action |-> "respond", email |-> email_data, reason |-> reasoning,
             response |-> ""]
      [] OTHER -> None

\* The body of triage_router, the classifier answering `response` to the
\* prompt that classify_email builds from the sender's formatted history and
\* the email: the record stored and the dict returned.
Triage(email_data, response) ==
    LET author_history == FormattedHistory(email_history, email_data.sender, 3)
        result == ExtractClassification(response)
        email_record == [email_id       |-> email_data.id,
                         author         |-> email_data.sender,
                         subject        |-> email_data.subject,
                         classification |-> result[1],
                         reasoning      |-> result[2],
                         thread_summary |-> "",
                         timestamp      |-> now,
                         response_sent  |-> FALSE,
                         raw_content    |-> email_data.body]
    IN  /\ result_text' = response
        /\ email_history' = InsertOrReplaceEmail(email_history, EmailRow(email_record))
        /\ last' = [op     |-> "triage_router",
                    arg    |-> email_data,
                    prompt |-> <<author_history, email_data>>,
                    ret    |-> RouteResult(email_data, result[1], result[2])]

\* triage_router
TriageRouter(email_data, response) ==
    /\ Triage(email_data, response)
    /\ UNCHANGED <<user_context, conversation_patterns, now, set_log,
                   observe_log, connections, run>>

-----------------------------------------------------------------------------
(* Storage faults: sqlite3.Error raised by connect, execute or commit      *)

\* Where the storage layer fails in an operation.
Faults == {"connect", "execute", "commit"}

\* A read has no commit to fail in.
ReadFaults == {"connect", "execute"}

\* The call left by an exception: no value is returned.
Raised(op, arg) == [op |-> op, arg |-> arg, raised |-> "sqlite3.Error"]

\* The connection is open from sqlite3.connect to conn.close(), and no
\* operation reaches its conn.close() once a statement has raised.
OpenAfter(fault) == IF fault = "connect" THEN connections ELSE connections + 1

\* An operation whose body is in try / except sqlite3.Error: the fault is
\* printed and False returned; nothing was committed.
CaughtFault(op, arg, fault) ==
    /\ connections < MaxLeaks
    /\ connections' = OpenAfter(fault)
    /\ last' = Call(op, arg, FALSE)
    /\ UNCHANGED <<email_history, user_context, conversation_patterns, now,
                   result_text, set_log, observe_log, run>>

\* An operation without try: the sqlite3.Error leaves it.
UncaughtFault(op, arg, fault) ==
    /\ connections < MaxLeaks
    /\ connections' = OpenAfter(fault)
    /\ last' = Raised(op, arg)
    /\ UNCHANGED <<email_history, user_context, conversation_patterns, now,
                   result_text, set_log, observe_log, run>>

\* store_email_decision, the storage layer failing
StoreEmailDecisionFault(r, fault) == CaughtFault("store_email_decision", r, fault)

\* mark_response_sent, the storage layer failing
MarkResponseSentFault(id, fault) == CaughtFault("mark_response_sent", id, fault)

\* update_user_context, the storage layer failing
UpdateUserContextFault(key, value, category, fault) ==
    CaughtFault("update_user_context", <<key, value, category>>, fault)

\* update_conversation_pattern, the storage layer failing
UpdateConversationPatternFault(author_domain, classification, keywords, fault) ==
    CaughtFault("update_conversation_pattern",
                <<author_domain, classification, keywords>>, fault)

\* get_author_history, the storage layer failing
GetAuthorHistoryFault(author, limit, fault) ==
    UncaughtFault("get_author_history", <<author, limit>>, fault)

\* format_author_history_for_prompt, its get_author_history failing
FormatAuthorHistoryForPromptFault(author, limit, fault) ==
    UncaughtFault("format_author_history_for_prompt", <<author, limit>>, fault)

\* get_daily_summary, the storage layer failing
GetDailySummaryFault(date, fault) == UncaughtFault("get_daily_summary", date, fault)

\* cleanup_old_records, the storage layer failing
CleanupOldRecordsFault(days_to_keep, fault) ==
    UncaughtFault("cleanup_old_records", days_to_keep, fault)

\* triage_router, the history read of classify_email failing: the classifier
\* is not called, nothing is stored, no result is returned.
TriageRouterReadFault(email_data, fault) ==
    UncaughtFault("triage_router", email_data, fault)

\* triage_router, its store_email_decision failing: the False it returns is
\* dropped and the email is routed.
TriageRouterStoreFault(email_data, response, fault) ==
    LET author_history == FormattedHistory(email_history, email_data.sender, 3)
        result == ExtractClassification(response)
    IN  /\ connections < MaxLeaks
        /\ connections' = OpenAfter(fault)
        /\ result_text' = response
        /\ last' = [op     |-> "triage_router",
                    arg    |-> email_data,
                    prompt |-> <<author_history, email_data>>,
                    ret    |-> RouteResult(email_data, result[1], result[2])]
        /\ UNCHANGED <<email_history, user_context, conversation_patterns, now,
                       set_log, observe_log, run>>

-----------------------------------------------------------------------------
(* The batch run of the entry point: get_unread_emails, then triage_router *)
(* on the last email fetched                                               *)

\* What the mail server's answer for one message leads to in
\* get_email_details: the details; a KeyError, ValueError or IndexError
\* caught there (no payload in the answer); an exception of requests.get,
\* which fetch_server makes outside any try; an answer of status 200 that is
\* not JSON, on which the except clause calls response.json() once more.
FetchOutcomes == {"details", "no_payload", "unreachable", "not_json"}

\* The dict get_unread_emails keeps for a message fetched with success.
EmailDetails(msg_id) ==
    [id |-> msg_id, sender |-> "ann@acme.com", recipient |-> "me",
     subject |-> "Meeting", body |-> "Hi", success |-> TRUE]

\* get_unread_message_ids returning the ids of the unread messages; with
\* none, get_unread_emails returns [] at once.
GetUnreadMessageIds(unread_ids) ==
    /\ run.phase = "idle"
    /\ run' = [run EXCEPT !.ids = unread_ids,
                          !.phase = IF unread_ids = <<>> THEN "fetched"
                                                        ELSE "fetching"]
    /\ last' = Call("get_unread_message_ids", None, unread_ids)
    /\ UNCHANGED <<email_history, user_context, conversation_patterns, now,
                   result_text, set_log, observe_log, connections>>

\* One turn of the loop of get_unread_emails: get_email_details(msg_id) and
\* what the loop does with its result.
GetEmailDetails(outcome) ==
    /\ run.phase = "fetching"
    /\ LET msg_id == run.ids[run.fetched + 1]
           ended  == run.fetched + 1 = Len(run.ids)
       IN  /\ run' =
                  CASE outcome = "details" ->
                          [run EXCEPT !.fetched = @ + 1,
                                      !.unread_emails = Append(@, EmailDetails(msg_id)),
                                      !.phase = IF ended THEN "fetched" ELSE @]
                    [] outcome = "no_payload" ->
                          [run EXCEPT !.fetched = @ + 1,
                                      !.failed = @ \cup {msg_id},
                                      !.phase = IF ended THEN "fetched" ELSE @]
                    [] OTHER ->
                          [run EXCEPT !.failed = @ \cup {msg_id},
                                      !.phase = "aborted"]
           /\ last' = IF outcome \in {"details", "no_payload"}
                      THEN Call("get_email_details", msg_id, outcome = "details")
                      ELSE [op |-> "get_email_details", arg |-> msg_id,
                            raised |-> outcome]
    /\ UNCHANGED <<email_history, user_context, conversation_patterns, now,
                   result_text, set_log, observe_log, connections>>

\* triage_router(unread_emails[-1], memory) of the entry point, the
\* classifier answering.
TriageLastUnread(response) ==
    /\ run.phase = "fetched"
    /\ run.unread_emails # <<>>
    /\ Triage(run.unread_emails[Len(run.unread_emails)], response)
    /\ run' = [run EXCEPT !.phase = "done"]
    /\ UNCHANGED <<user_context, conversation_patterns, now, set_log,
                   observe_log, connections>>

\* The same call, generate_content raising: classify_email and
\* triage_router have no try, the run ends with nothing stored.
TriageLastUnreadClassifierFault ==
    /\ run.phase = "fetched"
    /\ run.unread_emails # <<>>
    /\ LET email_data == run.unread_emails[Len(run.unread_emails)]
       IN  /\ run' = [run EXCEPT !.phase = "aborted",
                                 !.failed = @ \cup {email_data.id}]
           /\ last' = [op |-> "triage_router", arg |-> email_data,
                       raised |-> "generate_content"]
    /\ UNCHANGED <<email_history, user_context, conversation_patterns, now,
                   result_text, set_log, observe_log, connections>>

\* unread_emails[-1] on the empty list: IndexError.
TriageLastOfNone ==
    /\ run.phase = "fetched"
    /\ run.unread_emails = <<>>
    /\ run' = [run EXCEPT !.phase = "aborted"]
    /\ last' = [op |-> "__main__", arg |-> None, raised |-> "IndexError"]
    /\ UNCHANGED <<email_history, user_context, conversation_patterns, now,
                   result_text, set_log, observe_log, connections>>

-----------------------------------------------------------------------------
(* Inputs the operations are driven with *)

EmailIds == {"e1", "e2"}
Authors == {"ann@acme.com", "bob@corp.org"}
Stamps == 0..MaxNow

\* The text fields of a record: a base choice and one more per field, which
\* differs from the base in that field alone.
BaseContent ==
    [subject |-> "Meeting", classification |-> "RESPOND", reasoning |-> "asks",
     thread_summary |-> "Meeting request", raw_content |-> "Hi"]

Contents ==
    {BaseContent,
     [BaseContent EXCEPT !.subject = "Offer"],
     [BaseContent EXCEPT !.classification = "ignore"],
     [BaseContent EXCEPT !.reasoning = "spam"],
     [BaseContent EXCEPT !.thread_summary = ""],
     [BaseContent EXCEPT !.raw_content = "Dear"]}

MakeRecord(id, author, ts, sent, c) ==
    [email_id |-> id, author |-> author, subject |-> c.subject,
     classification |-> c.classification, reasoning |-> c.reasoning,
     thread_summary |-> c.thread_summary, timestamp |-> ts,
     response_sent |-> sent, raw_content |-> c.raw_content]

\* Records of the Record Store specification: every field varies.
Records ==
    {MakeRecord(id, a, ts, sent, c) :
        id \in EmailIds, a \in Authors, ts \in {0, MaxNow},
        sent \in BOOLEAN, c \in Contents}

\* Records of the history specification: three ids, each with its own text,
\* any author, and timestamps that are earlier, later, equal, on the same
\* day and on different days.
HistoryStamps == {0, 1, TicksPerDay + 1}

HistoryIds == {"e1", "e2", "e3"}

HistoryContent(id) ==
    CASE id = "e1" -> [BaseContent EXCEPT !.classification = "ignore",
                                          !.thread_summary = ""]
      [] id = "e2" -> BaseContent
      [] OTHER     -> [BaseContent EXCEPT !.classification = "notify",
                                          !.thread_summary = "Build report"]

HistoryRecords ==
    {MakeRecord(id, a, ts, FALSE, HistoryContent(id)) :
        id \in HistoryIds, a \in Authors, ts \in HistoryStamps}

Limits == -1..3

\* Subjects of the subject-search specification, character by character:
\* two that differ in letter case alone, two that hold a % or a _.
SubjectChars == {"a", "A", "%", "_"}

Subjects == {<<"a", "b">>, <<"A", "b">>, <<"a", "%">>, <<"_", "b">>}

SubjectRecords ==
    {MakeRecord(id, "ann@acme.com", ts, FALSE, [BaseContent EXCEPT !.subject = subj]) :
        id \in EmailIds, ts \in {0, 1}, subj \in Subjects}

Fragments == SeqsUpTo(SubjectChars, MaxFragmentLen)

SubjectLimits == {-1, 1}

\* Records of the retention specification: dates vary.
RetentionRecords ==
    {MakeRecord(id, "ann@acme.com", ts, FALSE, BaseContent) :
        id \in EmailIds, ts \in Stamps}

DaysToKeep == -1..2

\* Inputs of the fault specification: one caller-made record, one inbound
\* email under the same id, an ignore verdict and a text without markers.
FaultRecords == {MakeRecord("m1", "ann@acme.com", 0, FALSE, BaseContent)}

FaultEmail ==
    [id |-> "m1", sender |-> "ann@acme.com", recipient |-> "me",
     subject |-> "Meeting", body |-> "Hi"]

FaultResponses == {<<"CLASSIFICATION:", "IGNORE">>, <<"x">>}

\* Records of the lifecycle specification, which starts on day 1: written
\* by a caller under the ids the pipeline's emails have, dated yesterday or
\* today, not yet responded to.
LifecycleRecords ==
    {MakeRecord(id, "ann@acme.com", ts, FALSE, BaseContent) :
        id \in {"m1", "m2"}, ts \in {0, TicksPerDay}}

\* Batches of unread message ids: up to MaxBatch different ids.
MessageIds == {"m1", "m2", "m3"}

Batches ==
    {b \in SeqsUpTo(MessageIds, MaxBatch) :
        \A i, j \in 1..Len(b) : b[i] = b[j] => i = j}

\* Records of the weekly specification, which starts on day WeekDays + 1:
\* dated before the week, on the day a week ago, inside the week, today and
\* tomorrow, classified as a caller or as the pipeline spells it.
WeeklyToday == WeekDays + 1

WeeklyDays == {0, 1, 2, WeeklyToday, WeeklyToday + 1}

WeeklyRecords ==
    {MakeRecord(id, "ann@acme.com", day * TicksPerDay, FALSE,
                [BaseContent EXCEPT !.classification = c]) :
        id \in EmailIds, day \in WeeklyDays, c \in {"RESPOND", "respond"}}

ContextKeys == {"preferred_meeting_time", "busy_days"}
ContextValues == {"2pm-4pm", "Monday"}
Categories == {"general", "scheduling"}

PatternPairs == {<<"acme.com", "ignore">>, <<"acme.com", "respond">>,
                 <<"corp.org", "ignore">>}
KeywordLists == {<<>>, <<"newsletter">>, <<"meeting", "newsletter">>}

\* Inbound emails: a message id names one message.
Emails ==
    {[id |-> "m1", sender |-> "ann@acme.com", recipient |-> "me", subject |-> "Meeting",
      body |-> "Hi"],
     [id |-> "m2", sender |-> "bob@corp.org", recipient |-> "me", subject |-> "Build",
      body |-> "Done"]}

\* Classifier answers: an ignore verdict with its reasoning, a lower-case
\* notify verdict, and a text without markers (which parses as respond).
Responses ==
    {<<"CLASSIFICATION:", " ", "IGNORE", "\n", "REASONING:", "\n", "x">>,
     <<"classification:", " ", "notify", "\n", "x">>,
     <<"x">>}

\* Response texts of the parsing specification.
Texts == SeqsUpTo(Tokens, MaxTextLen) \cup SeqsUpTo(CoreTokens, MaxCoreLen)

-----------------------------------------------------------------------------
(* Specifications *)

\* The entry point before it has fetched anything.
Idle == [phase |-> "idle", ids |-> <<>>, fetched |-> 0, unread_emails |-> <<>>,
         failed |-> {}]

\* A fresh database, the clock at its start, nothing called yet.
Init ==
    /\ email_history = <<>>
    /\ user_context = <<>>
    /\ conversation_patterns = <<>>
    /\ now = 0
    /\ result_text = <<>>
    /\ last = Call("__init__", None, None)
    /\ set_log = [k \in ContextKeys |->
                     [value |-> None, category |-> None, moved |-> FALSE]]
    /\ observe_log = [p \in PatternPairs |-> [calls |-> 0, keywords |-> <<>>]]
    /\ connections = 0
    /\ run = Idle

\* Record Store: writes of arbitrary records and mark-responded.
Next ==
    \/ \E r \in Records : StoreEmailDecision(r)
    \/ \E id \in EmailIds \cup {"unknown"} : MarkResponseSent(id)

Spec == Init /\ [][Next]_vars

\* Author history and its formatting.
NextHistory ==
    \/ \E r \in HistoryRecords : StoreEmailDecision(r)
    \/ \E a \in Authors, n \in Limits : GetAuthorHistory(a, n)
    \/ \E a \in Authors, n \in Limits : FormatAuthorHistoryForPrompt(a, n)

SpecHistory == Init /\ [][NextHistory]_vars

\* Subject search.
NextSubjects ==
    \/ \E r \in SubjectRecords : StoreEmailDecision(r)
    \/ \E f \in Fragments, n \in SubjectLimits : GetSimilarSubjects(f, n)

SpecSubjects == Init /\ [][NextSubjects]_vars

\* Pattern Store under its single sequential writer.
NextPatterns ==
    \/ \E p \in PatternPairs, kw \in KeywordLists :
           UpdateConversationPattern(p[1], p[2], kw)
    \/ \E p \in PatternPairs : GetAuthorPatterns(p[1])
    \/ Tick

SpecPatterns == Init /\ [][NextPatterns]_vars

\* The response parser on every text of the bounds.
InitParse ==
    /\ Init!1 /\ Init!2 /\ Init!3 /\ Init!4 /\ Init!6 /\ Init!7 /\ Init!8
    /\ Init!9 /\ Init!10
    /\ result_text \in Texts

NextParse == ExtractClassificationCall

SpecParse == InitParse /\ [][NextParse]_vars

\* The pipeline writing the records, and the daily summary over them.
NextPipeline ==
    \/ \E e \in Emails, response \in Responses : TriageRouter(e, response)
    \/ \E date \in 0..(MaxNow \div TicksPerDay) : GetDailySummary(date)
    \/ Tick

SpecPipeline == Init /\ [][NextPipeline]_vars

\* Weekly statistics, the program started on day WeeklyToday.
InitWeekly ==
    /\ Init!1 /\ Init!2 /\ Init!3 /\ Init!5 /\ Init!6 /\ Init!7 /\ Init!8
    /\ Init!9 /\ Init!10
    /\ now = WeeklyToday * TicksPerDay

NextWeekly ==
    \/ \E r \in WeeklyRecords : StoreEmailDecision(r)
    \/ GetWeeklyStats

SpecWeekly == InitWeekly /\ [][NextWeekly]_vars

\* Every store operation and the pipeline, the storage layer failing or not.
NextFaults ==
    \/ \E response \in FaultResponses : TriageRouter(FaultEmail, response)
    \/ \E f \in ReadFaults : TriageRouterReadFault(FaultEmail, f)
    \/ \E response \in FaultResponses, f \in Faults :
           TriageRouterStoreFault(FaultEmail, response, f)
    \/ \E r \in FaultRecords : StoreEmailDecision(r)
    \/ \E r \in FaultRecords, f \in Faults : StoreEmailDecisionFault(r, f)
    \/ MarkResponseSent("m1")
    \/ \E f \in Faults : MarkResponseSentFault("m1", f)
    \/ \E f \in Faults : UpdateUserContextFault("busy_days", "Monday", "general", f)
    \/ \E f \in Faults :
           UpdateConversationPatternFault("acme.com", "ignore", <<"newsletter">>, f)
    \/ GetAuthorHistory("ann@acme.com", 1)
    \/ \E f \in ReadFaults : GetAuthorHistoryFault("ann@acme.com", 1, f)
    \/ FormatAuthorHistoryForPrompt("ann@acme.com", 1)
    \/ \E f \in ReadFaults : FormatAuthorHistoryForPromptFault("ann@acme.com", 1, f)
    \/ GetDailySummary(0)
    \/ \E f \in ReadFaults : GetDailySummaryFault(0, f)
    \/ CleanupOldRecords(0)
    \/ \E f \in Faults : CleanupOldRecordsFault(0, f)

SpecFaults == Init /\ [][NextFaults]_vars

\* One run of the entry point.
NextBatch ==
    \/ \E b \in Batches : GetUnreadMessageIds(b)
    \/ \E outcome \in FetchOutcomes : GetEmailDetails(outcome)
    \/ \E response \in Responses : TriageLastUnread(response)
    \/ TriageLastUnreadClassifierFault
    \/ TriageLastOfNone

SpecBatch == Init /\ [][NextBatch]_vars

\* The life of a record: every operation of the store and the pipeline, the
\* program started on day 1.
InitLifecycle ==
    /\ Init!1 /\ Init!2 /\ Init!3 /\ Init!5 /\ Init!6 /\ Init!7 /\ Init!8
    /\ Init!9 /\ Init!10
    /\ now = TicksPerDay

NextLifecycle ==
    \/ \E e \in Emails : TriageRouter(e, <<"x">>)
    \/ \E r \in LifecycleRecords : StoreEmailDecision(r)
    \/ \E id \in {"m1", "m2", "unknown"} : MarkResponseSent(id)
    \/ UpdateUserContext("busy_days", "Monday", "general")
    \/ UpdateConversationPattern("acme.com", "ignore", <<"newsletter">>)
    \/ GetAuthorHistory("ann@acme.com", 1)
    \/ FormatAuthorHistoryForPrompt("ann@acme.com", 1)
    \/ GetDailySummary(1)
    \/ ExportToJson
    \/ \E days \in {0, 1} : CleanupOldRecords(days)

SpecLifecycle == InitLifecycle /\ [][NextLifecycle]_vars

\* Retention sweep beside writes to all three tables.
NextRetention ==
    \/ \E r \in RetentionRecords : StoreEmailDecision(r)
    \/ \E days \in DaysToKeep : CleanupOldRecords(days)
    \/ UpdateUserContext("busy_days", "Monday", "general")
    \/ UpdateConversationPattern("acme.com", "ignore", <<"newsletter">>)
    \/ Tick

SpecRetention == Init /\ [][NextRetention]_vars

\* Context Store.
NextContext ==
    \/ \E k \in ContextKeys, v \in ContextValues, c \in Categories :
           UpdateUserContext(k, v, c)
    \/ \E k \in ContextKeys : GetUserContext(k)
    \/ \E c \in Categories : GetUserContextByCategory(c)

SpecContext == Init /\ [][NextContext]_vars

-----------------------------------------------------------------------------
(* Record Store claims, under Spec *)

\* C1: in every reachable state there is at most one row per email_id, and
\* after store_email_decision(r') the table holds exactly one row under
\* r'.email_id, which reads back equal to r' in every field, whatever was
\* stored under that id before.
C1_UpsertOneRowLatestFields ==
    /\ \A i, j \in 1..Len(email_history) :
          email_history[i].email_id = email_history[j].email_id => i = j
    /\ last.op = "store_email_decision" =>
          LET rows == RowsWithId(email_history, last.arg.email_id)
          IN  /\ Len(rows) = 1
              /\ \A f \in DOMAIN last.arg : EmailRecord(rows[1])[f] = last.arg[f]
              /\ DOMAIN EmailRecord(rows[1]) = DOMAIN last.arg

\* C1 witness: a put over an id that held a different record, with another
\* id stored as well.
C1_Witness ==
    /\ last.op = "store_email_decision"
    /\ last.existed /\ last.differed
    /\ Len(email_history) = 2

\* C8: mark_response_sent(id) on a stored id sets that record's
\* response_sent, leaves its other fields and every other row as they were
\* and returns True; on an unknown id it returns False and the tables are
\* unchanged.
C8_MarkRespondedFrame ==
    [][last'.op = "mark_response_sent" =>
        LET id == last'.arg
            known == \E i \in 1..Len(email_history) : email_history[i].email_id = id
        IN  /\ last'.ret = known
            /\ Len(email_history') = Len(email_history)
            /\ \A i \in 1..Len(email_history) :
                  LET old == EmailRecord(email_history[i])
                      new == EmailRecord(email_history'[i])
                  IN  IF old.email_id = id
                      THEN new = [old EXCEPT !.response_sent = TRUE]
                      ELSE email_history'[i] = email_history[i]
            /\ ~known => email_history' = email_history
            /\ UNCHANGED <<user_context, conversation_patterns>>]_vars

\* C8 witness: a successful mark of a record that was not yet marked, beside
\* a record that stays unmarked.
C8_Witness ==
    /\ last.op = "mark_response_sent" /\ last.ret = TRUE
    /\ \E i, j \in 1..Len(email_history) :
          /\ email_history[i].email_id = last.arg
          /\ email_history[i].response_sent = 1
          /\ email_history[j].email_id # last.arg
          /\ email_history[j].response_sent = 0

-----------------------------------------------------------------------------
(* Author history claims, under SpecHistory *)

\* The stored records of an author other than the record r.
OthersOfAuthor(r) ==
    {i \in 1..Len(email_history) :
        /\ email_history[i].author = r.author
        /\ email_history[i].email_id # r.email_id}

\* C2, as claimed, in the states the claim names: store_email_decision(r)
\* followed immediately by get_author_history(r.author, 1) returns exactly
\* <<r>> when the other records of that author have earlier or later
\* timestamps than r.
C2_RoundTripAnyState ==
    (/\ last.op = "get_author_history"
     /\ last.after # <<>>
     /\ last.arg = <<last.after[1].author, 1>>
     /\ \A i \in OthersOfAuthor(last.after[1]) :
           EmailRecord(email_history[i]).timestamp # last.after[1].timestamp)
    => last.ret = last.after

\* C2, amended: store_email_decision(r) followed immediately by
\* get_author_history(r.author, 1) returns exactly <<r>>, equal to r in all
\* fields, provided every other stored record of r.author has a timestamp
\* strictly earlier than r's.
C2_RoundTripWhenNewest ==
    (/\ last.op = "get_author_history"
     /\ last.after # <<>>
     /\ last.arg = <<last.after[1].author, 1>>
     /\ \A i \in OthersOfAuthor(last.after[1]) :
           EmailRecord(email_history[i]).timestamp < last.after[1].timestamp)
    => last.ret = last.after

\* C2 witness: the round trip made while the author has an earlier record
\* and another author has a later one.
C2_Witness ==
    /\ last.op = "get_author_history"
    /\ last.after # <<>>
    /\ last.arg = <<last.after[1].author, 1>>
    /\ OthersOfAuthor(last.after[1]) # {}
    /\ \A i \in OthersOfAuthor(last.after[1]) :
          EmailRecord(email_history[i]).timestamp < last.after[1].timestamp
    /\ \E i \in 1..Len(email_history) :
          /\ email_history[i].author # last.after[1].author
          /\ EmailRecord(email_history[i]).timestamp > last.after[1].timestamp

\* The rows of an author, as positions in the table.
PositionsOfAuthor(author) ==
    {i \in 1..Len(email_history) : email_history[i].author = author}

\* lines shows k records of the author, one line each and no record twice,
\* newest first, no record left out being newer than one shown, each line
\* made of that record's day, classification and thread_summary.
ShowsNewest(lines, author, k) ==
    /\ Len(lines) = k
    /\ \E f \in [1..k -> PositionsOfAuthor(author)] :
          /\ \A i, j \in 1..k : f[i] = f[j] => i = j
          /\ \A i \in 1..k :
                LET r == EmailRecord(email_history[f[i]])
                IN  lines[i] = <<"- ", r.timestamp \div TicksPerDay, ": ",
                                 r.classification, " - ", r.thread_summary>>
          /\ \A i \in 1..(k - 1) :
                EmailRecord(email_history[f[i]]).timestamp
                    >= EmailRecord(email_history[f[i + 1]]).timestamp
          /\ \A p \in PositionsOfAuthor(author) : \A i \in 1..k :
                (\A j \in 1..k : f[j] # p) =>
                    EmailRecord(email_history[p]).timestamp
                        <= EmailRecord(email_history[f[i]]).timestamp

\* C10, as claimed, of a returned value ret for (author, limit): the
\* sentinel exactly when the author has no record, otherwise min(limit,
\* count) lines, newest first.
FormatAsClaimed(ret, author, limit) ==
    LET count == Cardinality(PositionsOfAuthor(author))
    IN  /\ (ret = <<NoHistory>>) <=> (count = 0)
        /\ count > 0 => ShowsNewest(ret, author, Min(limit, count))

\* C10, as claimed: format_author_history_for_prompt(author, limit) returns
\* the sentinel exactly when the author has no record, otherwise exactly
\* min(limit, count) lines, newest first, each from its record's day,
\* classification and thread_summary, and leaves the tables unchanged.
C10_FormatAnyLimit ==
    [][last'.op = "format_author_history_for_prompt" =>
        /\ FormatAsClaimed(last'.ret, last'.arg[1], last'.arg[2])
        /\ UNCHANGED <<email_history, user_context, conversation_patterns>>]_vars

\* C10, amended, of a returned value: for limit >= 1 as claimed; for
\* limit = 0 the sentinel whatever is stored; for a negative limit one line
\* for every record of the author.
FormatAmended(ret, author, limit) ==
    LET count == Cardinality(PositionsOfAuthor(author))
        shown == IF limit < 0 THEN count ELSE Min(limit, count)
    IN  /\ (ret = <<NoHistory>>) <=> (shown = 0)
        /\ shown > 0 => ShowsNewest(ret, author, shown)

\* C10, amended: for limit >= 1, format_author_history_for_prompt(author,
\* limit) returns the sentinel exactly when the author has no record and
\* otherwise exactly min(limit, count) lines, newest first, each from its
\* record's day, classification and thread_summary; for limit = 0 it returns
\* the sentinel even when records exist, and for a negative limit a line for
\* every record of the author; the call leaves the tables unchanged.
C10_FormatPositiveLimit ==
    [][last'.op = "format_author_history_for_prompt" =>
        /\ FormatAmended(last'.ret, last'.arg[1], last'.arg[2])
        /\ UNCHANGED <<email_history, user_context, conversation_patterns>>]_vars

\* C10 witness: three records of one author with different timestamps,
\* formatted with limit 2 into two lines.
C10_Witness ==
    /\ last.op = "format_author_history_for_prompt"
    /\ last.arg[2] = 2
    /\ Cardinality(PositionsOfAuthor(last.arg[1])) = 3
    /\ Len(last.ret) = 2
    /\ last.ret[1][2] # last.ret[2][2]
    /\ \E i, j \in PositionsOfAuthor(last.arg[1]) :
          i < j /\ TextLess(email_history[i].timestamp, email_history[j].timestamp)

\* ret holds k of the records stored at the positions P, no record twice,
\* each equal to its stored record, in non-increasing timestamp order, no
\* record of P left out being newer than one returned.
NewestOf(ret, P, k) ==
    /\ Len(ret) = k
    /\ \E f \in [1..k -> P] :
          /\ \A i, j \in 1..k : f[i] = f[j] => i = j
          /\ \A i \in 1..k : ret[i] = EmailRecord(email_history[f[i]])
          /\ \A i \in 1..(k - 1) : ret[i].timestamp >= ret[i + 1].timestamp
          /\ \A p \in P : \A i \in 1..k :
                (\A j \in 1..k : f[j] # p) =>
                    EmailRecord(email_history[p]).timestamp <= ret[i].timestamp

\* ret holds the k newest records of the author, and records of no other.
ReturnsNewest(ret, author, k) ==
    /\ \A i \in 1..Len(ret) : ret[i].author = author
    /\ NewestOf(ret, PositionsOfAuthor(author), k)

\* C11, as claimed: for every integer limit, get_author_history(author,
\* limit) returns only records of the author, never more than limit of
\* them, namely the min(limit, count) newest in non-increasing timestamp
\* order, and the empty sequence for an author without records.
C11_HistoryAnyLimit ==
    last.op = "get_author_history" =>
        LET author == last.arg[1]
            limit == last.arg[2]
            count == Cardinality(PositionsOfAuthor(author))
        IN  /\ count = 0 => last.ret = <<>>
            /\ count > 0 =>
                  /\ Len(last.ret) <= limit
                  /\ ReturnsNewest(last.ret, author, Min(limit, count))

\* C11, amended: for every limit >= 0, get_author_history(author, limit)
\* returns only records of the author, never more than limit of them,
\* namely the min(limit, count) newest in non-increasing timestamp order;
\* for a negative limit it returns all count records of the author in that
\* order; for an author without records it returns the empty sequence.
C11_HistoryNonNegativeLimit ==
    last.op = "get_author_history" =>
        LET author == last.arg[1]
            limit == last.arg[2]
            count == Cardinality(PositionsOfAuthor(author))
        IN  /\ count = 0 => last.ret = <<>>
            /\ limit >= 0 => Len(last.ret) <= limit
            /\ ReturnsNewest(last.ret, author,
                             IF limit < 0 THEN count ELSE Min(limit, count))

\* C11 witness: an author with three records of different timestamps asked
\* for two, the newest of them being e1.
C11_Witness ==
    /\ last.op = "get_author_history"
    /\ last.arg[2] = 2
    /\ Len(last.ret) = 2
    /\ Cardinality(PositionsOfAuthor(last.arg[1])) = 3
    /\ \A i, j \in PositionsOfAuthor(last.arg[1]) :
          email_history[i].timestamp = email_history[j].timestamp => i = j
    /\ last.ret[1].email_id = "e1"

-----------------------------------------------------------------------------
(* Subject search claim, under SpecSubjects *)

\* fragment occurs in text as it stands, character for character.
OccursLiterally(fragment, text) ==
    \E i \in 0..(Len(text) - Len(fragment)) :
        \A k \in 1..Len(fragment) : text[i + k] = fragment[k]

\* The sum of the first n entries of w.
RECURSIVE SumOfFirst(_, _)
SumOfFirst(w, n) == IF n = 0 THEN 0 ELSE w[n] + SumOfFirst(w, n - 1)

\* fragment occurs in text when each % of it may stand for any run of
\* characters, each _ for any one character, and the letters a and b match
\* in either case: some start and some widths, one per fragment character
\* and 1 for all but %, lay the fragment over the text.
OccursAsLike(fragment, text) ==
    \E start \in 0..Len(text) : \E w \in [1..Len(fragment) -> 0..Len(text)] :
        /\ start + SumOfFirst(w, Len(fragment)) <= Len(text)
        /\ \A k \in 1..Len(fragment) :
              fragment[k] # "%" =>
                  /\ w[k] = 1
                  /\ LET ch == text[start + SumOfFirst(w, k)]
                     IN  \/ fragment[k] = "_"
                         \/ fragment[k] = ch
                         \/ {fragment[k], ch} \in {{"a", "A"}, {"b", "B"}}

\* C12, as claimed: get_similar_subjects(fragment, limit) returns a record
\* if and only if its subject contains fragment as a literal,
\* case-sensitive substring, newest first and capped at limit.
C12_SubjectLiteralSubstring ==
    (last.op = "get_similar_subjects" /\ last.arg[2] >= 0) =>
        LET matching == {i \in 1..Len(email_history) :
                            OccursLiterally(last.arg[1], email_history[i].subject)}
        IN  NewestOf(last.ret, matching, Min(last.arg[2], Cardinality(matching)))

\* C12, amended: get_similar_subjects(fragment, limit) returns a record if
\* and only if its subject matches the LIKE pattern %fragment%, in which
\* ASCII letters match in either case, a _ of the fragment matches any one
\* character and a % any run of characters; newest first and, for
\* limit >= 0, capped at limit (a negative limit caps nothing).
C12_SubjectLikePattern ==
    last.op = "get_similar_subjects" =>
        LET matching == {i \in 1..Len(email_history) :
                            OccursAsLike(last.arg[1], email_history[i].subject)}
            count == Cardinality(matching)
        IN  NewestOf(last.ret, matching,
                     IF last.arg[2] < 0 THEN count ELSE Min(last.arg[2], count))

\* C12 witness: a search for "a_" capped at one, with the subjects "a%" and
\* then, newer, "Ab" stored, neither of which contains the fragment
\* literally: it returns the newer one.
C12_Witness ==
    /\ last.op = "get_similar_subjects"
    /\ last.arg = <<(<<"a", "_">>), 1>>
    /\ Len(email_history) = 2
    /\ email_history[1].subject = <<"A", "b">>
    /\ email_history[2].subject = <<"a", "%">>
    /\ TextLess(email_history[2].timestamp, email_history[1].timestamp)
    /\ Len(last.ret) = 1
    /\ last.ret[1].subject = <<"A", "b">>

-----------------------------------------------------------------------------
(* Pattern Store claim, under SpecPatterns *)

\* The rows of a (domain, classification) pair, as positions in the table.
PositionsOfPair(rows, p) ==
    {i \in 1..Len(rows) :
        rows[i].author_domain = p[1] /\ rows[i].typical_classification = p[2]}

\* One row at most per pair; a pair observed n > 0 times has a row whose
\* frequency is n and whose keywords read back as those of the latest call;
\* a pair never observed has no row.
PatternRowsMatchCalls ==
    \A p \in PatternPairs :
        LET at == PositionsOfPair(conversation_patterns, p)
        IN  /\ Cardinality(at) <= 1
            /\ (at = {}) <=> (observe_log[p].calls = 0)
            /\ \A i \in at :
                  LET pattern == ConversationPattern(conversation_patterns[i])
                  IN  /\ pattern.frequency = observe_log[p].calls
                      /\ pattern.keywords = observe_log[p].keywords

\* From one state to the next every row keeps its pair and neither its
\* frequency nor its last_seen decreases.
PatternRowsNeverRegress ==
    \A p \in PatternPairs :
        \A i \in PositionsOfPair(conversation_patterns, p) :
            \E j \in PositionsOfPair(conversation_patterns', p) :
                /\ conversation_patterns'[j].frequency
                      >= conversation_patterns[i].frequency
                /\ ConversationPattern(conversation_patterns'[j]).last_seen
                      >= ConversationPattern(conversation_patterns[i]).last_seen

\* C3: with one sequential writer, after any sequence of
\* update_conversation_pattern calls there is at most one row per
\* (author_domain, typical_classification), its frequency is the number of
\* calls made for the pair, its keywords are those of the latest call, and
\* frequency and last_seen never decrease from a state to the next.
C3_ObserveCountsAndLatest ==
    [][PatternRowsMatchCalls' /\ PatternRowsNeverRegress]_vars

\* C3 witness: a pair observed twice, its second call at a later time and
\* with other keywords than the first, beside another pair.
C3_Witness ==
    /\ last.op = "update_conversation_pattern"
    /\ last.arg[3] = <<"meeting", "newsletter">>
    /\ Len(conversation_patterns) = 2
    /\ \E i \in 1..Len(conversation_patterns) :
          /\ conversation_patterns[i].author_domain = last.arg[1]
          /\ conversation_patterns[i].typical_classification = last.arg[2]
          /\ conversation_patterns[i].frequency = 2
          /\ conversation_patterns[i].last_seen = AdaptDatetime(now)
          /\ now > 0

-----------------------------------------------------------------------------
(* Retention claim, under SpecRetention *)

\* C7: cleanup_old_records(days) removes exactly the rows whose date is
\* strictly before today - days, returns how many it removed, and leaves
\* the other rows, user_context and conversation_patterns unchanged; called
\* again on the same day with the same days and no call in between, it
\* removes nothing and returns 0.  (A step that leaves the clock alone and
\* ends with last naming cleanup_old_records is a call of it.)
C7_PurgeExactAndIdempotent ==
    [][(last'.op = "cleanup_old_records" /\ now' = now) =>
        LET cutoff == last'.today - last'.arg
            stays(x) == EmailRecord(x).timestamp \div TicksPerDay >= cutoff
        IN  /\ last'.today = now \div TicksPerDay
            /\ email_history' = SelectSeq(email_history, stays)
            /\ last'.ret = Len(email_history) - Len(email_history')
            /\ UNCHANGED <<user_context, conversation_patterns>>
            /\ (/\ last.op = "cleanup_old_records"
                /\ last.arg = last'.arg
                /\ last.today = last'.today)
               => (last'.ret = 0 /\ email_history' = email_history)]_vars

\* C7 witness: a purge that removed a row and kept a row, with rows in the
\* other two tables.
C7_Witness ==
    /\ last.op = "cleanup_old_records"
    /\ last.ret = 1
    /\ Len(email_history) = 1
    /\ SqlDate(email_history[1].timestamp) = last.today - last.arg
    /\ user_context # <<>>
    /\ conversation_patterns # <<>>

-----------------------------------------------------------------------------
(* Context Store claim, under SpecContext *)

\* C9: each key has at most one row; get_user_context(key) returns the
\* value of the latest update_user_context for the key, or None when the
\* key was never set; get_user_context_by_category(c) maps exactly the keys
\* whose latest set used category c, each to its latest value.
C9_ContextLastWriteWins ==
    /\ \A i, j \in 1..Len(user_context) :
          user_context[i].key = user_context[j].key => i = j
    /\ last.op = "get_user_context" => last.ret = set_log[last.arg].value
    /\ last.op = "get_user_context_by_category" =>
          /\ DOMAIN last.ret = {k \in ContextKeys : set_log[k].category = last.arg}
          /\ \A k \in DOMAIN last.ret : last.ret[k] = set_log[k].value

\* C9 witness: a category read after a key of it was set again under
\* another category, while another key is still in it.
C9_Witness ==
    /\ last.op = "get_user_context_by_category"
    /\ \E k \in ContextKeys :
          /\ set_log[k].moved
          /\ set_log[k].category # last.arg
          /\ k \notin DOMAIN last.ret
    /\ DOMAIN last.ret # {}

-----------------------------------------------------------------------------
(* Parsing claims, under SpecParse *)

Verdicts == {"ignore", "respond", "notify"}

\* The verdict a line names: the first of IGNORE, NOTIFY, RESPOND found in
\* it, respond when none is.
VerdictNamed(s) ==
    IF Contains(s, "IGNORE") THEN "ignore"
    ELSE IF Contains(s, "NOTIFY") THEN "notify"
    ELSE "respond"

\* The positions of the lines that start, upper-cased, with a marker.
MarkerLines(lines, marker) ==
    {i \in 1..Len(lines) : Len(lines[i]) > 0 /\ UpperToken(lines[i][1]) = marker}

\* C4, as claimed: the verdict is one of the three; the first line of the
\* response text whose upper-cased form starts with CLASSIFICATION: decides
\* it, by the first of IGNORE, NOTIFY, RESPOND found in the upper-cased rest
\* of that line; without such a line or such a word it is respond.
C4_VerdictFromFirstMarkerLine ==
    last.op = "extract_classification" =>
        LET lines == SplitLines(last.arg)
            marked == MarkerLines(lines, "CLASSIFICATION:")
        IN  /\ last.ret[1] \in Verdicts
            /\ marked = {} => last.ret[1] = "respond"
            /\ marked # {} =>
                  last.ret[1] = VerdictNamed(Upper(Tail(lines[Nth(marked, 1)])))

\* C4, amended: the verdict is one of the three; among the lines of the
\* response text stripped of leading and trailing whitespace, the first
\* whose upper-cased form starts with CLASSIFICATION: decides it (later
\* ones are not consulted), by the first of IGNORE, NOTIFY, RESPOND found
\* in that upper-cased line once every occurrence of CLASSIFICATION: is
\* removed from it; without such a line or such a word it is respond.
C4_VerdictFromFirstStrippedLine ==
    last.op = "extract_classification" =>
        LET lines == SplitLines(Strip(last.arg))
            marked == MarkerLines(lines, "CLASSIFICATION:")
        IN  /\ last.ret[1] \in Verdicts
            /\ marked = {} => last.ret[1] = "respond"
            /\ \A i \in marked :
                  (\A j \in marked : i <= j) =>
                      last.ret[1] = VerdictNamed(
                          SelectSeq(Upper(lines[i]), LAMBDA t : t # "CLASSIFICATION:"))

\* C4 witness: two CLASSIFICATION: lines naming different verdicts, the
\* first of them with its word in lower case.
C4_Witness ==
    /\ last.op = "extract_classification"
    /\ last.arg = <<"CLASSIFICATION:", "notify", "\n", "CLASSIFICATION:", "IGNORE">>
    /\ last.ret[1] = "notify"

\* The lines after position i of lines that satisfy keep.
LinesAfter(lines, i, keep(_)) ==
    SelectSeq(SubSeq(lines, i + 1, Len(lines)), keep)

\* C5, as claimed: when some line of the response text starts, in any case,
\* with REASONING:, the reasoning is the newline-joined lines after that
\* line, also when no line follows it; and the reasoning is the whole raw
\* text exactly when no line is such a marker.
C5_ReasoningAfterMarker ==
    last.op = "extract_classification" =>
        LET lines == SplitLines(last.arg)
            marked == MarkerLines(lines, "REASONING:")
        IN  /\ marked # {} =>
                  last.ret[2] = JoinLines(
                      LinesAfter(lines, Nth(marked, 1), LAMBDA l : TRUE))
            /\ (last.ret[2] = last.arg) <=> (marked = {})

\* C5, amended: among the lines of the response text stripped of leading
\* and trailing whitespace, when some line starts, in any case, with
\* REASONING: and a line that is not itself such a marker follows the first
\* of them, the reasoning is the newline-joined lines after that first
\* marker line, later REASONING: lines left out and CLASSIFICATION: lines
\* kept; otherwise the reasoning is the whole raw text.  The verdict plays
\* no part in it.
C5_ReasoningAfterFirstMarker ==
    last.op = "extract_classification" =>
        LET lines == SplitLines(Strip(last.arg))
            marked == MarkerLines(lines, "REASONING:")
            unmarked(l) == ~(Len(l) > 0 /\ UpperToken(l[1]) = "REASONING:")
            rest == IF marked = {} THEN <<>>
                    ELSE LinesAfter(lines, Nth(marked, 1), unmarked)
        IN  last.ret[2] = IF rest = <<>> THEN last.arg ELSE JoinLines(rest)

\* C5 witness: a CLASSIFICATION: line after the REASONING: marker, which
\* decides the verdict and is part of the reasoning.
C5_Witness ==
    /\ last.op = "extract_classification"
    /\ last.arg = <<"REASONING:", "\n", "x", "\n", "CLASSIFICATION:">>
    /\ last.ret = <<"respond", <<"x", "\n", "CLASSIFICATION:">>>>

-----------------------------------------------------------------------------
(* Daily summary claim, under SpecPipeline *)

\* The summary key of a classification.
SummaryKey(c) ==
    CASE c = "ignore" -> "IGNORE" [] c = "notify" -> "NOTIFY" [] c = "respond" -> "RESPOND"

\* The records dated d whose classification is c.
DatedWith(d, c) ==
    {i \in 1..Len(email_history) :
        /\ EmailRecord(email_history[i]).timestamp \div TicksPerDay = d
        /\ email_history[i].classification = c}

\* C6: get_daily_summary(d) returns one count per known classification and
\* a total and nothing else; each count is the number of records dated d
\* with that classification, the three counts sum to total, and total is
\* the number of records dated d.
C6_SummaryCountsSumToTotal ==
    last.op = "get_daily_summary" =>
        LET d == last.arg
            summary == last.ret
        IN  /\ DOMAIN summary = {"IGNORE", "NOTIFY", "RESPOND", "total"}
            /\ \A c \in Verdicts : summary[SummaryKey(c)] = Cardinality(DatedWith(d, c))
            /\ summary["IGNORE"] + summary["NOTIFY"] + summary["RESPOND"]
                  = summary["total"]
            /\ summary["total"] = Cardinality(UNION {DatedWith(d, c) : c \in Verdicts})

-----------------------------------------------------------------------------
(* Pipeline claim, under SpecPipeline *)

\* C16: triage_router(email) with any classifier response leaves exactly
\* one row under the email's id, whose classification and reasoning are
\* those parsed from the response, leaves the other rows alone, and returns
\* a result whose action is the stored classification and whose reason is
\* the stored reasoning: for ignore the reason and no email, for notify the
\* reason and the email, for respond the reason, the email and an empty
\* reply.  (A step that leaves the clock alone and ends with last naming
\* triage_router is a call of it.)
C16_PersistThenRoute ==
    [][(last'.op = "triage_router" /\ now' = now) =>
        LET email  == last'.arg
            rows   == RowsWithId(email_history', email.id)
            parsed == ExtractClassification(result_text')
            result == last'.ret
        IN  /\ Len(rows) = 1
            /\ rows[1].classification = parsed[1]
            /\ rows[1].reasoning = parsed[2]
            /\ rows[1].classification \in Verdicts
            /\ RowsWithoutId(email_history', email.id)
                  = RowsWithoutId(email_history, email.id)
            /\ DOMAIN result =
                  CASE rows[1].classification = "ignore" -> {"action", "reason"}
                    [] rows[1].classification = "notify" ->
                          {"action", "reason", "email"}
                    [] OTHER -> {"action", "reason", "email", "response"}
            /\ result.action = rows[1].classification
            /\ result.reason = rows[1].reasoning
            /\ "email" \in DOMAIN result => result.email = email
            /\ "response" \in DOMAIN result => result.response = ""]_vars

\* C16 witness: an email routed as notify and stored beside the record of
\* another email.
C16_Witness ==
    /\ last.op = "triage_router"
    /\ last.ret.action = "notify"
    /\ last.ret.email.id = "m1"
    /\ Len(email_history) = 2
    /\ email_history[2].email_id = "m1"
    /\ email_history[2].classification = "notify"

-----------------------------------------------------------------------------
(* Weekly breakdown claim, under SpecWeekly *)

\* C13: get_weekly_stats returns an entry for each of exactly the last 7
\* calendar days up to today and for no other day; each entry has one count
\* per known classification and nothing else, the number of records of that
\* day with that classification, all 0 on a day without records.
C13_WeeklySevenDaysZeroFilled ==
    last.op = "get_weekly_stats" =>
        LET stats == last.ret
        IN  /\ DOMAIN stats = (last.today - 6)..last.today
            /\ \A day \in DOMAIN stats :
                  /\ DOMAIN stats[day] = {"IGNORE", "NOTIFY", "RESPOND"}
                  /\ \A c \in Verdicts :
                        stats[day][SummaryKey(c)] =
                            Cardinality(DatedWith(day, c)
                                        \cup DatedWith(day, SummaryKey(c)))

-----------------------------------------------------------------------------
(* Storage fault claims, under SpecFaults *)

\* C14: a store operation in which the storage layer fails reports the
\* failure to its caller as a value and never raises; so triage_router is
\* never left by a storage error: no call ends raised.
C14_StorageFaultsAreValues == "raised" \notin DOMAIN last

\* C15: every store operation has released its connection when it returns
\* or fails, so the number of open connections is 0 after any sequence of
\* operations, failing or not.
C15_NoOpenConnections == connections = 0

-----------------------------------------------------------------------------
(* Batch claim, under SpecBatch *)

\* C17: when the run has ended, every email of the batch whose own fetch and
\* whose own classification did not fail has been fetched, classified and
\* persisted, whatever failed for the others.
C17_BatchFaultIsolation ==
    run.phase \in {"done", "aborted"} =>
        \A i \in 1..Len(run.ids) :
            run.ids[i] \notin run.failed =>
                RowsWithId(email_history, run.ids[i]) # <<>>

-----------------------------------------------------------------------------
(* Record lifecycle claims, under SpecLifecycle *)

\* C18: an email_id in the store is still in it after every step, unless
\* the step is cleanup_old_records and the record's date is before that
\* call's cutoff today - days: a put (also of that id), mark, context set,
\* observe, query, format and export never remove a record.
C18_RemovedOnlyByPurge ==
    [][\A i \in 1..Len(email_history) :
          RowsWithId(email_history', email_history[i].email_id) = <<>> =>
              /\ last'.op = "cleanup_old_records"
              /\ EmailRecord(email_history[i]).timestamp \div TicksPerDay
                    < last'.today - last'.arg]_vars

\* C18 witness: a purge that removed yesterday's record and kept the record
\* dated on its cutoff.
C18_Witness ==
    /\ last.op = "cleanup_old_records"
    /\ last.arg = 0
    /\ last.ret = 1
    /\ Len(email_history) = 1
    /\ EmailRecord(email_history[1]).timestamp \div TicksPerDay = last.today

\* The id a step stores a record under, if it stores one.
StoredId(call) ==
    CASE call.op = "store_email_decision" -> call.arg.email_id
      [] call.op = "triage_router"        -> call.arg.id
      [] OTHER                            -> None

\* C19, as claimed: a record whose response_sent was set (which only
\* mark_response_sent returning True does here) keeps it through every step
\* for as long as the record exists, also when triage_router processes the
\* same id again.
C19_ResponseSentSticky ==
    [][\A i \in 1..Len(email_history) : \A j \in 1..Len(email_history') :
          (/\ email_history[i].response_sent = 1
           /\ email_history'[j].email_id = email_history[i].email_id)
          => email_history'[j].response_sent = 1]_vars

\* C19, amended: mark_response_sent(id) returning True leaves the record
\* with response_sent set, and the record keeps it through every later
\* step for as long as it exists, except a step that stores a record under
\* the same id (store_email_decision, and so triage_router processing that
\* id again), after which it has the response_sent of the record stored.
C19_ResponseSentUntilPutAgain ==
    [][/\ (last'.op = "mark_response_sent" /\ last'.ret) =>
              \E j \in 1..Len(email_history') :
                  /\ email_history'[j].email_id = last'.arg
                  /\ email_history'[j].response_sent = 1
       /\ \A i \in 1..Len(email_history) : \A j \in 1..Len(email_history') :
              (/\ email_history[i].response_sent = 1
               /\ email_history'[j].email_id = email_history[i].email_id)
              => \/ email_history'[j].response_sent = 1
                 \/ /\ StoredId(last') = email_history[i].email_id
                    /\ email_history'[j].response_sent
                          = (IF last'.op = "store_email_decision"
                                /\ last'.arg.response_sent THEN 1 ELSE 0)]_vars

\* C19 witness: m1 was marked before m2 was processed again by
\* triage_router, and m1 is still marked.
C19_Witness ==
    /\ last.op = "triage_router"
    /\ last.arg.id = "m2"
    /\ Len(email_history) = 2
    /\ email_history[1].email_id = "m1" /\ email_history[1].response_sent = 1
    /\ email_history[2].email_id = "m2" /\ email_history[2].response_sent = 0

=============================================================================
